---- MODULE Spec2Model ----
(***************************************************************************)
(* The deploy and update tools of the ochothon portal toolset              *)
(* (images/portal/resources/toolset/toolset/commands/deploy.py and         *)
(* update.py): one _Automation thread per container template, started and  *)
(* joined by _Tool.body, talking to the marathon masters, to the pod       *)
(* registry in zookeeper and (update) to sibling toolset commands.         *)
(***************************************************************************)
EXTENDS Integers, Sequences, FiniteSets, TLC

(***************************************************************************)
(* Bounds of the model.                                                    *)
(***************************************************************************)
\* longest list of container templates on the command line
MaxThreads == 2
\* largest value given to -p
MaxPods == 2
\* most pods the cluster holds before the tool runs
MaxPrior == 3
\* longest wait given to -w
MaxWait == 1
\* first sequence number the registry gave to a pod of the cluster
FirstSeq == 9

None == "None"

(***************************************************************************)
(* Helpers.                                                                *)
(***************************************************************************)
Range(s) == {s[i] : i \in DOMAIN s}

EmptyDict == [k \in {} |-> None]

RECURSIVE SumOver(_, _)
\* sum(f[x] for x in S)
SumOver(S, f) ==
    IF S = {} THEN 0
    ELSE LET x == CHOOSE y \in S : TRUE IN f[x] + SumOver(S \ {x}, f)

\* the decimal digits of a natural number, as str() / '%d' write it
RECURSIVE Digits(_)
Digits(n) == IF n < 10 THEN <<n>> ELSE Append(Digits(n \div 10), n % 10)

\* python's ordering of two digit strings (lexicographic, shorter prefix first)
RECURSIVE LexLess(_, _)
LexLess(a, b) ==
    IF a = <<>> THEN b # <<>>
    ELSE IF b = <<>> THEN FALSE
    ELSE IF Head(a) # Head(b) THEN Head(a) < Head(b)
    ELSE LexLess(Tail(a), Tail(b))

\* the pod key '<qualified> #<seq>' of two pods of one cluster differ by the
\* sequence suffix only: sorted(replies.items()) orders them by that suffix
KeyLess(s1, s2) == LexLess(Digits(s1), Digits(s2))

RECURSIVE SortByKey(_)
\* the sequence numbers of S in the order of their pod keys
SortByKey(S) ==
    IF S = {} THEN <<>>
    ELSE LET m == CHOOSE x \in S : \A y \in S \ {x} : KeyLess(x, y)
         IN <<m>> \o SortByKey(S \ {m})

Max(a, b) == IF a >= b THEN a ELSE b

\* ochopod.core.utils.merge on two flat dicts: right wins
Merge(left, right) ==
    [k \in DOMAIN left \cup DOMAIN right |->
        IF k \in DOMAIN right THEN right[k] ELSE left[k]]

(***************************************************************************)
(* The inputs: what is on disk, in the environment and on the command line.*)
(***************************************************************************)
Null == "null"

Templates == {"web.yml", "db.yml", "bad.yml", "port.yml"}

\* yaml.load(f) of each container definition
TemplateFile(name) ==
    CASE name = "web.yml" ->
            [cluster |-> "web", image |-> "nginx",
             verbatim |-> [cpus |-> "2", instances |-> 9]]
      [] name = "db.yml" ->
            [cluster |-> "db", image |-> "pg", settings |-> [url |-> Null]]
      [] name = "port.yml" ->
            [cluster |-> "web", image |-> "nginx",
             ports |-> <<[type |-> "str", val |-> <<"9", " ", "*">>],
                         [type |-> "str", val |-> <<"9", "0", "*">>]>>]
      [] OTHER -> [cluster |-> "bad"]

Namespaces == {"default"}
Suffixes == {None, "b"}
\* os.environ before the tool runs: $MARATHON_MASTER, split at the commas
Environs == {EmptyDict, [MARATHON_MASTER |-> <<"m1">>]}

\* the overrides the -o file may hold
OverrideMaps == {EmptyDict, [k \in {"default.db"} |-> [url |-> "pg://x"]]}

\* what marathon, zookeeper, the pods and the sibling tools may answer in a run:
\* the codes of POST /v2/apps and of DELETE /v2/apps/<id>, the exit codes of
\* toolset kill, whether zookeeper can be reached, and what a pod reports of
\* itself once registered, as (code, hints['process'])
Anything ==
    [post |-> {200, 201, 409}, delete |-> {200, 204, 500}, exit |-> {0, 1},
     zk |-> BOOLEAN,
     pod |-> {<<200, "running">>, <<200, "dead">>, <<410, "stopped">>},
     sibling |-> {"ok", "fail", "partial", "garbled"}]

\* a quieter outside: zookeeper is there and every pod that boots runs
Quiet ==
    [post |-> {200, 409}, delete |-> {200}, exit |-> {0, 1},
     zk |-> {TRUE}, pod |-> {<<200, "running">>},
     sibling |-> {"ok", "fail", "garbled"}]

VARIABLES
    args,       \* the parsed command line
    environ,    \* os.environ of the portal process
    overrides,  \* the overrides mapping _Tool.body loads and hands to each thread
    now,        \* time.time(), in whole seconds
    registry,   \* the pods registered in zookeeper
    nextSeq,    \* the next sequence number the registry allocates
    apps,       \* the applications marathon runs
    outside,    \* what the outside may answer in this run
    rpc,        \* where _Tool.body stands
    started,    \* how many _Automation objects body has constructed
    threads,    \* body's dict: template -> _Automation
    outcome,    \* body's dict: template -> what join() returned
    report,     \* what body logs and returns
    pc,         \* where each _Automation.run stands
    out,        \* self.out of each _Automation
    pods,       \* self.pods of each _Automation (deploy)
    frame,      \* the locals of each run()
    log         \* the calls each _Automation made to the outside, in order

vars == <<args, environ, overrides, now, registry, nextSeq, apps, outside, rpc, started,
          threads, outcome, report, pc, out, pods, frame, log>>

shared == <<args, environ, overrides, outside>>
world == <<registry, nextSeq, apps>>
body == <<rpc, started, threads, outcome, report>>

Threads == 1..MaxThreads
Finished == {"done", "aborted"}

(***************************************************************************)
(* deploy.py, _Automation.run: the pure parts.                             *)
(***************************************************************************)
DeployDefaults ==
    [debug |-> FALSE, settings |-> EmptyDict,
     ports |-> <<[type |-> "int", val |-> 8080]>>, verbatim |-> EmptyDict]

\* _nullcheck: the settings whose value is null
NullCheck(settings) == {k \in DOMAIN settings : settings[k] = Null}

DigitChars == <<"0", "1", "2", "3", "4", "5", "6", "7", "8", "9">>

RECURSIVE IntOf(_)
\* int(chars) of a string of decimal digits
IntOf(chars) ==
    IF chars = <<>> THEN 0
    ELSE 10 * IntOf(SubSeq(chars, 1, Len(chars) - 1))
         + (CHOOSE d \in 0..9 : DigitChars[d + 1] = chars[Len(chars)])

\* a port parser that would take any token
PortLax(token) == TRUE

\* whether _parse_port returns: an int, or a string of digits ending in ' *'
PortValid(token) ==
    \/ token.type = "int"
    \/ /\ token.type = "str"
       /\ Len(token.val) > 2
       /\ SubSeq(token.val, Len(token.val) - 1, Len(token.val)) = <<" ", "*">>
       /\ \A i \in 1..(Len(token.val) - 2) : token.val[i] \in Range(DigitChars)

\* _parse_port
ParsePort(token) ==
    IF token.type = "int" THEN [containerPort |-> token.val]
    ELSE LET port == IntOf(SubSeq(token.val, 1, Len(token.val) - 2))
         IN [containerPort |-> port, hostPort |-> port]

\* the cluster identifier, with the -s suffix appended when there is one
Cluster(cfg, suffix) ==
    IF suffix # None THEN cfg.cluster \o "-" \o suffix ELSE cfg.cluster

Qualified(namespace, cluster) == namespace \o "." \o cluster

Application(qualified, stamp) == <<"ochopod", qualified, stamp>>

\* line 301: -p has no default, so that args.pods is None when it is not given
NotGiven == 0 - 1

\* lines 140-143, the target number of pods: `not self.pods` holds of None
\* and of 0 alike
TargetPods(p, cycle, prev) ==
    IF cycle /\ (p = NotGiven \/ p = 0) THEN Len(prev)
    ELSE IF p = NotGiven \/ p = 0 THEN 1
    ELSE p

\* the application definition sent to marathon
Generated(cfg, namespace, cluster, qualified, application, n, ports) ==
    [id |-> application,
     instances |-> n,
     env |-> [ochopod_cluster |-> cluster,
              ochopod_debug |-> IF cfg.debug THEN "true" ELSE "false",
              ochopod_namespace |-> namespace,
              ochopod_application |-> qualified,
              pod |-> cfg.settings],
     container |-> [image |-> cfg.image, network |-> "BRIDGE",
                    portMappings |-> ports]]

\* a merge the other way round, in which the verbatim block would win
VerbatimOnTop(cfg, spec) ==
    IF "verbatim" \in DOMAIN cfg THEN Merge(spec, cfg.verbatim) ELSE spec

\* spec = merge(cfg['verbatim'], spec)
WithVerbatim(cfg, spec) ==
    IF "verbatim" \in DOMAIN cfg THEN Merge(cfg.verbatim, spec) ELSE spec

\* fire(zk, qualified, 'info'): the pods registered for that cluster
Replies(qualified) == {p \in registry : p.cluster = qualified}

\* _query before the submission: the sequence numbers of the live pods
QueryPrev(qualified) ==
    SortByKey({p.seq : p \in {r \in Replies(qualified) : r.code = 200}})

\* _query inside _spin: (process, seq) of the pods of the new application
QuerySpin(qualified, application) ==
    LET mine == {p \in Replies(qualified) : p.app = application}
        order == SortByKey({p.seq : p \in mine})
    IN [i \in DOMAIN order |->
          <<(CHOOSE p \in mine : p.seq = order[i]).process, order[i]>>]

\* `state is not 'dead'`: the identity of a decoded string and of a literal
IsNotDead(state) == TRUE

\* sum(1 for state, _ in js if state is not 'dead')
Running(js) == Cardinality({i \in DOMAIN js : IsNotDead(js[i][1])})

Up(js) == [i \in DOMAIN js |-> js[i][2]]

\* the locals of run() before it runs (deploy.py, then update.py)
InitFrame ==
    [master |-> None, qualified |-> None, application |-> <<>>, cfg |-> EmptyDict,
     prev |-> <<>>, spec |-> EmptyDict, seen |-> <<>>,
     timeout |-> 0, wait |-> 0, total |-> 0, js |-> <<>>, counter |-> 0,
     ok_rolling |-> TRUE, scale_result |-> FALSE, expired |-> FALSE]

\* an error that would escape its thread and take the running siblings along
AbortAll(t) ==
    pc' = [u \in Threads |->
              IF u = t \/ pc[u] \notin Finished \cup {"new"} THEN "aborted" ELSE pc[u]]

Abort(t) == pc' = [pc EXCEPT ![t] = "aborted"]

(***************************************************************************)
(* deploy.py, _Automation.run: one action per call to the outside.         *)
(***************************************************************************)
\* time.time() as the next reader may see it: the second of the last stamp taken
\* or a later one (a second in which no stamp is taken for this cluster is
\* not told apart)
Clock(qualified) ==
    IF \E u \in Threads : frame[u].application = Application(qualified, now)
    THEN {now, now + 1} ELSE {now}

\* lines 59-196: everything before the POST: the environment, the template, the
\* identifiers, the settings, the pods already there, the target count, the
\* ports and the spec
DeployBuild(t) ==
    /\ args.tool = "deploy"
    /\ pc[t] = "run"
    /\ LET cfg0 == Merge(DeployDefaults, TemplateFile(args.containers[t]))
       IN IF \/ "MARATHON_MASTER" \notin DOMAIN environ
             \/ "cluster" \notin DOMAIN cfg0
             \/ "image" \notin DOMAIN cfg0
          THEN Abort(t) /\ UNCHANGED <<now, pods, frame>>
          ELSE \E master \in Range(environ.MARATHON_MASTER),
                  stamp \in Clock(Qualified(args.namespace, Cluster(cfg0, args.suffix))),
                  reachable \in outside.zk :
                 LET cluster == Cluster(cfg0, args.suffix)
                     qualified == Qualified(args.namespace, cluster)
                     application == Application(qualified, stamp)
                     settings == IF qualified \in DOMAIN overrides
                                 THEN Merge(cfg0.settings, overrides[qualified])
                                 ELSE cfg0.settings
                     cfg == [cfg0 EXCEPT !.cluster = cluster, !.settings = settings]
                     built == [frame[t] EXCEPT !.master = master,
                                               !.qualified = qualified,
                                               !.application = application,
                                               !.cfg = cfg]
                     prev == QueryPrev(qualified)
                     n == TargetPods(pods[t], args.cycle, prev)
                 IN /\ now' = stamp
                    /\ IF NullCheck(settings) # {} \/ ~reachable
                       THEN /\ Abort(t)
                            /\ frame' = [frame EXCEPT ![t] = built]
                            /\ UNCHANGED pods
                       ELSE /\ pods' = [pods EXCEPT ![t] = n]
                            /\ IF \E i \in DOMAIN cfg.ports : ~PortValid(cfg.ports[i])
                               THEN /\ Abort(t)
                                    /\ frame' = [frame EXCEPT ![t] =
                                          [built EXCEPT !.prev = prev]]
                               ELSE /\ pc' = [pc EXCEPT ![t] = "post"]
                                    /\ frame' = [frame EXCEPT ![t] = [built EXCEPT
                                          !.prev = prev,
                                          !.spec = WithVerbatim(cfg,
                                              Generated(cfg, args.namespace, cluster,
                                                        qualified, application, n,
                                                        [i \in DOMAIN cfg.ports |->
                                                            ParsePort(cfg.ports[i])]))]]
    /\ UNCHANGED <<shared, world, body, out, log>>

\* lines 203-207: POST /v2/apps; marathon takes no second application of one id
DeployPost(t) ==
    /\ pc[t] = "post"
    /\ \E code \in outside.post :
         LET f == frame[t]
             accepted == code = 200 \/ code = 201
         IN /\ accepted => \A a \in apps : a.id # f.spec.id
            /\ log' = [log EXCEPT ![t] = Append(@,
                  [op |-> "POST", master |-> f.master, id |-> f.spec.id, code |-> code])]
            /\ IF accepted
               THEN /\ apps' = apps \cup {[id |-> f.spec.id,
                                           cluster |-> f.spec.env.ochopod_application,
                                           instances |-> f.spec.instances,
                                           booted |-> 0]}
                    /\ pc' = [pc EXCEPT ![t] = "spin"]
               ELSE Abort(t) /\ UNCHANGED apps
    /\ UNCHANGED <<shared, now, registry, nextSeq, body, out, pods, frame>>

\* a cleanup that would phase the previous pods out whenever --cycle is set
AfterSpinKillAnyway(up) ==
    IF args.cycle THEN "kill"
    ELSE IF up = <<>> THEN "delete" ELSE "done"

\* lines 232 and 245: `if not up:` the DELETE, `elif self.cycle:` the kill
AfterSpin(up) ==
    IF up = <<>> THEN "delete"
    ELSE IF args.cycle THEN "kill" ELSE "done"

\* lines 214-230 and the branch of 232 / 245: one attempt of _spin. A failed
\* attempt is followed by another one unless the timeout of @retry is over
\* (the clock of the timeout is left out: it is over after any failed
\* attempt); the last attempt, passed or not (expired), sets the outcome.
\* seen is what the last answered query of the poll listed
DeploySpin(t) ==
    /\ pc[t] = "spin"
    /\ \E reachable \in outside.zk, over \in BOOLEAN :
         LET f == frame[t]
             found == QuerySpin(f.qualified, f.application)
             passed == reachable /\ Len(found) = pods[t]
             seen == IF reachable THEN found ELSE f.seen
         IN IF passed \/ over
            THEN LET js == IF passed THEN found ELSE <<>>
                 IN /\ out' = [out EXCEPT ![t] =
                          [@ EXCEPT !.up = Up(js), !.ok = (pods[t] = Running(js))]]
                    /\ frame' = [frame EXCEPT ![t] = [@ EXCEPT
                          !.seen = seen, !.expired = ~passed]]
                    /\ pc' = [pc EXCEPT ![t] = AfterSpin(Up(js))]
            ELSE /\ frame' = [frame EXCEPT ![t].seen = seen]
                 /\ UNCHANGED <<pc, out>>
    /\ UNCHANGED <<shared, now, world, body, pods, log>>

\* lines 239-243: DELETE /v2/apps/<application>
DeployDelete(t) ==
    /\ pc[t] = "delete"
    /\ \E code \in outside.delete :
         LET f == frame[t]
             deleted == code = 200 \/ code = 204
         IN /\ log' = [log EXCEPT ![t] = Append(@,
                  [op |-> "DELETE", master |-> f.master, id |-> f.application,
                   code |-> code])]
            /\ IF deleted
               THEN /\ apps' = {a \in apps : a.id # f.application}
                    /\ registry' = {p \in registry : p.app # f.application}
                    /\ pc' = [pc EXCEPT ![t] = "done"]
               ELSE Abort(t) /\ UNCHANGED <<apps, registry>>
    /\ UNCHANGED <<shared, now, nextSeq, body, out, pods, frame>>

\* lines 251-254: toolset kill <qualified> -i <prev> -d
DeployKill(t) ==
    /\ pc[t] = "kill"
    /\ \E code \in outside.exit :
         LET f == frame[t]
         IN /\ log' = [log EXCEPT ![t] = Append(@,
                  [op |-> "kill", cluster |-> f.qualified, seq |-> f.prev,
                   code |-> code])]
            /\ IF code = 0
               THEN /\ registry' = {p \in registry :
                          ~(p.cluster = f.qualified /\ p.seq \in Range(f.prev))}
                    /\ out' = [out EXCEPT ![t].down = f.prev]
                    /\ pc' = [pc EXCEPT ![t] = "done"]
               ELSE Abort(t) /\ UNCHANGED <<registry, out>>
    /\ UNCHANGED <<shared, now, nextSeq, apps, body, pods, frame>>

\* where a thread has yet to read the registry
Watching == {"run", "post", "spin",
             "env", "_kill", "_deploy", "_scale", "_get_new_pod_seq", "sleep"}

\* marathon boots one more pod of an application, which registers itself
PodBoot ==
    /\ \E t \in Threads : pc[t] \in Watching
    /\ \E a \in apps, st \in outside.pod :
         /\ a.booted < a.instances
         /\ apps' = (apps \ {a}) \cup {[a EXCEPT !.booted = @ + 1]}
         /\ registry' = registry \cup
              {[seq |-> nextSeq, cluster |-> a.cluster, app |-> a.id,
                code |-> st[1], process |-> st[2]]}
         /\ nextSeq' = nextSeq + 1
    /\ UNCHANGED <<shared, now, body, pc, out, pods, frame, log>>

(***************************************************************************)
(* deploy.py, _Tool.body.                                                  *)
(***************************************************************************)
\* line 307: at least one container definition is required
BodyAssert ==
    /\ rpc = "start"
    /\ rpc' = IF Len(args.containers) > 0 THEN "spawn" ELSE "raised"
    /\ UNCHANGED <<shared, now, world, started, threads, outcome, report,
                   pc, out, pods, frame, log>>

\* the dict d with d[k] = v
Put(d, k, v) == [x \in DOMAIN d \cup {k} |-> IF x = k THEN v ELSE d[x]]

\* lines 331-338 and 39-56: the next _Automation is constructed, which starts
\* it, and is stored under its template
DeploySpawn ==
    /\ args.tool = "deploy"
    /\ rpc = "spawn"
    /\ LET i == started + 1
       IN /\ started' = i
          /\ threads' = Put(threads, args.containers[i], i)
          /\ pc' = [pc EXCEPT ![i] = "run"]
          /\ out' = [out EXCEPT ![i] = [ok |-> FALSE, up |-> <<>>, down |-> <<>>]]
          /\ pods' = [pods EXCEPT ![i] = args.pods]
          /\ rpc' = IF i = Len(args.containers) THEN "join" ELSE "spawn"
    /\ UNCHANGED <<shared, now, world, outcome, report, frame, log>>

\* thread.join() of the next thread of the dict, which returns its self.out
BodyJoin ==
    /\ rpc = "join"
    /\ DOMAIN outcome # DOMAIN threads
    /\ LET left == DOMAIN threads \ DOMAIN outcome
           key == CHOOSE k \in left : \A j \in left : threads[k] <= threads[j]
       IN /\ pc[threads[key]] \in Finished
          /\ outcome' = Put(outcome, key, out[threads[key]])
    /\ UNCHANGED <<shared, now, world, rpc, started, threads, report,
                   pc, out, pods, frame, log>>

\* pct = (100 * sum(1 for _, js in outcome.items() if js['ok'])) / n if n else 0
Pct(result, n) ==
    IF n # 0
    THEN (100 * Cardinality({k \in DOMAIN result : result[k].ok})) \div n
    ELSE 0

\* a status that would be content with any success
StatusAny(pct) == IF pct > 0 THEN 0 ELSE 1

\* return 0 if pct == 100 else 1
Status(pct) == IF pct = 100 THEN 0 ELSE 1

\* lines 343-348
DeployReport ==
    /\ args.tool = "deploy"
    /\ rpc = "join"
    /\ DOMAIN outcome = DOMAIN threads
    /\ report' = [pct |-> Pct(outcome, Cardinality(DOMAIN threads)),
                  up |-> SumOver(DOMAIN outcome, [k \in DOMAIN outcome |-> Len(outcome[k].up)]),
                  status |-> Status(Pct(outcome, Cardinality(DOMAIN threads)))]
    /\ rpc' = "done"
    /\ UNCHANGED <<shared, now, world, started, threads, outcome,
                   pc, out, pods, frame, log>>

(***************************************************************************)
(* The deploy tool.                                                        *)
(***************************************************************************)
\* the lists of container definitions the command line may name: never an
\* empty one, update takes nargs='+' and deploy falls back on '*', one name
\* that no file bears
ContainerLists ==
    UNION {[1..n -> Templates] : n \in 1..MaxThreads}

\* the listing order only fixes the order in which the threads are built:
\* the lists of several templates are drawn in one order, duplicates included
TemplateOrder == <<"web.yml", "db.yml", "bad.yml">>

OrderedLists ==
    UNION {{[i \in 1..n |-> TemplateOrder[f[i]]] :
                f \in {g \in [1..n -> 1..Len(TemplateOrder)] :
                          \A i \in 1..n : \A j \in i..n : g[i] <= g[j]}} :
           n \in 1..MaxThreads}

\* a run of one _Automation at most
Solo == {c \in ContainerLists : Len(c) <= 1}

PriorCluster == "default.web"
PriorStates == {<<200, "running">>, <<410, "stopped">>}

\* the pods of an earlier generation of the cluster
PriorRegistries ==
    UNION {
      {{[seq |-> FirstSeq + i - 1, cluster |-> PriorCluster,
         app |-> Application(PriorCluster, 0),
         code |-> st[i][1], process |-> st[i][2]] : i \in 1..n}
       : st \in [1..n -> PriorStates]}
      : n \in 0..MaxPrior}

InitWorld ==
    /\ registry \in PriorRegistries
    /\ nextSeq = FirstSeq + Cardinality(registry)
    /\ apps = IF registry = {} THEN {}
              ELSE {[id |-> Application(PriorCluster, 0), cluster |-> PriorCluster,
                     instances |-> Cardinality(registry),
                     booted |-> Cardinality(registry)]}
    /\ now = 1

InitBody ==
    /\ rpc = "start"
    /\ started = 0
    /\ threads = EmptyDict
    /\ outcome = EmptyDict
    /\ report = EmptyDict
    /\ pc = [t \in Threads |-> "new"]
    /\ out = [t \in Threads |-> EmptyDict]
    /\ pods = [t \in Threads |-> 0]
    /\ frame = [t \in Threads |-> InitFrame]
    /\ log = [t \in Threads |-> <<>>]

\* deploy <one template> [-c] [-p pods] [-o overrides], against any outside
\* a thread of the run works on the cluster of this qualified identifier
Touches(qualified) ==
    \E i \in DOMAIN args.containers :
        LET raw == TemplateFile(args.containers[i])
        IN /\ "cluster" \in DOMAIN raw
           /\ Qualified(args.namespace, Cluster(raw, args.suffix)) = qualified

\* the pods and the overrides of a cluster no thread of the run works on play
\* no part in it: the registry and the -o file hold none
NoBystander ==
    /\ registry # {} => Touches(PriorCluster)
    /\ \A q \in DOMAIN overrides : Touches(q)

InitDeploy ==
    /\ args \in [tool : {"deploy"}, containers : Solo,
                 namespace : Namespaces, suffix : Suffixes,
                 pods : {NotGiven} \cup 0..MaxPods, cycle : BOOLEAN]
    /\ environ \in Environs
    /\ overrides \in OverrideMaps
    /\ outside = Anything
    /\ InitWorld
    /\ NoBystander
    /\ InitBody

\* deploy <templates> -p 1, with the overrides, against a quiet outside and
\* a cluster that runs no pod yet
InitDeployMany ==
    /\ args \in [tool : {"deploy"}, containers : OrderedLists,
                 namespace : Namespaces, suffix : {None},
                 pods : {1}, cycle : {FALSE}]
    /\ environ = [MARATHON_MASTER |-> <<"m1">>]
    /\ overrides = [k \in {"default.db"} |-> [url |-> "pg://x"]]
    /\ outside = Quiet
    /\ registry = {}
    /\ nextSeq = FirstSeq
    /\ apps = {}
    /\ now = 1
    /\ InitBody


(***************************************************************************)
(* update.py, _Automation.run: the pure parts.                             *)
(***************************************************************************)
UpdateDefaults ==
    [start |-> TRUE, debug |-> FALSE, settings |-> EmptyDict,
     ports |-> <<[type |-> "int", val |-> 8080]>>, verbatim |-> EmptyDict]

\* _query_existing: len(replies), and the live sequence numbers by pod key
QueryExisting(qualified) ==
    [total |-> Cardinality(Replies(qualified)),
     js |-> SortByKey({p.seq : p \in {r \in Replies(qualified) : r.code = 200}})]

\* a diff that would not take away what is known already
DiffNone(a, b) == a

\* _diff: [aa for aa in a if aa not in b]
Diff(a, b) == SelectSeq(a, LAMBDA aa : aa \notin Range(b))

\* a loop that would hand every step the first pod
BatchFirst(t) ==
    IF args.rolling THEN <<frame[t].js[1]>> ELSE frame[t].js

\* the pods one call of _kill_deploy replaces: one of js in a rolling update,
\* all of js otherwise
Batch(t) ==
    IF args.rolling THEN <<frame[t].js[frame[t].counter + 1]>> ELSE frame[t].js

\* a step that would deploy its replacement whatever was added before
DeployAlways(up) == "_deploy"

\* _deploy_or_scale: which sibling creates the replacement
DeployOrScale(up) == IF Len(up) = 0 THEN "_deploy" ELSE "_scale"

\* lines 252-261, on entering _kill_deploy: the first call to make
FirstCall(up) == IF args.kill_first THEN "_kill" ELSE DeployOrScale(up)

\* a step that would create the replacement whatever the kill returned
FollowKillIgnored(call, result, up) ==
    IF args.kill_first
    THEN IF call = "_kill"
         THEN DeployOrScale(up)
         ELSE IF result THEN "True" ELSE "False"
    ELSE IF call = "_kill"
         THEN IF result THEN "True" ELSE "False"
         ELSE IF result THEN "_kill" ELSE "False"

\* a step that would kill the batch whatever the creation returned
FollowCreateIgnored(call, result, up) ==
    IF args.kill_first
    THEN IF call = "_kill"
         THEN IF result THEN DeployOrScale(up) ELSE "False"
         ELSE IF result THEN "True" ELSE "False"
    ELSE IF call = "_kill"
         THEN IF result THEN "True" ELSE "False"
         ELSE "_kill"

\* lines 252-261, once a call returned: the next call of the step, or how
\* the step ends
Follow(call, result, up) ==
    IF args.kill_first
    THEN IF call = "_kill"
         THEN IF result THEN DeployOrScale(up) ELSE "False"
         ELSE IF result THEN "True" ELSE "False"
    ELSE IF call = "_kill"
         THEN IF result THEN "True" ELSE "False"
         ELSE IF result THEN "_kill" ELSE "False"

\* what @retry does once its timeout has elapsed: it returns its default,
\* and is taken to raise or to return None where it was given none
NoSeq == 0 - 1
GivesUp(default) == IF default = None THEN {"raise", "None"} ELSE {"default"}

\* a loop that would keep the result of its last step only
AdvanceLast(t, o, f, next) ==
    IF next \notin {"True", "False"}
    THEN /\ pc' = [pc EXCEPT ![t] = next]
         /\ out' = [out EXCEPT ![t] = o]
         /\ frame' = [frame EXCEPT ![t] = f]
    ELSE LET status == next = "True"
             last == f.counter >= Len(f.js) - 1
         IN IF ~args.rolling
            THEN /\ pc' = [pc EXCEPT ![t] = "done"]
                 /\ out' = [out EXCEPT ![t] = [o EXCEPT !.ok = status]]
                 /\ frame' = [frame EXCEPT ![t] = f]
            ELSE IF f.wait > 0 /\ ~last
            THEN /\ pc' = [pc EXCEPT ![t] = "sleep"]
                 /\ out' = [out EXCEPT ![t] = o]
                 /\ frame' = [frame EXCEPT ![t] = [f EXCEPT !.ok_rolling = status]]
            ELSE IF ~last
            THEN /\ pc' = [pc EXCEPT ![t] = FirstCall(o.up)]
                 /\ out' = [out EXCEPT ![t] = o]
                 /\ frame' = [frame EXCEPT ![t] =
                       [f EXCEPT !.ok_rolling = status, !.counter = @ + 1]]
            ELSE /\ pc' = [pc EXCEPT ![t] = "done"]
                 /\ out' = [out EXCEPT ![t] = [o EXCEPT !.ok = status]]
                 /\ frame' = [frame EXCEPT ![t] = [f EXCEPT !.ok_rolling = status]]

\* a loop that would sleep after its last step too
PauseAlways(f, last) == f.wait > 0

\* line 271: `if self.wait > 0 and counter < len(js) - 1`
Pause(f, last) == f.wait > 0 /\ ~last

\* lines 265-280 around _kill_deploy: with o the outcome and f the locals as
\* the call left them, go on to what `next` says
Advance(t, o, f, next) ==
    IF next \notin {"True", "False"}
    THEN /\ pc' = [pc EXCEPT ![t] = next]
         /\ out' = [out EXCEPT ![t] = o]
         /\ frame' = [frame EXCEPT ![t] = f]
    ELSE LET status == next = "True"
             last == f.counter >= Len(f.js) - 1
             ok_rolling == f.ok_rolling /\ status
         IN IF ~args.rolling
            THEN /\ pc' = [pc EXCEPT ![t] = "done"]
                 /\ out' = [out EXCEPT ![t] = [o EXCEPT !.ok = status]]
                 /\ frame' = [frame EXCEPT ![t] = f]
            ELSE IF Pause(f, last)
            THEN /\ pc' = [pc EXCEPT ![t] = "sleep"]
                 /\ out' = [out EXCEPT ![t] = o]
                 /\ frame' = [frame EXCEPT ![t] = [f EXCEPT !.ok_rolling = ok_rolling]]
            ELSE IF ~last
            THEN /\ pc' = [pc EXCEPT ![t] = FirstCall(o.up)]
                 /\ out' = [out EXCEPT ![t] = o]
                 /\ frame' = [frame EXCEPT ![t] =
                       [f EXCEPT !.ok_rolling = ok_rolling, !.counter = @ + 1]]
            ELSE /\ pc' = [pc EXCEPT ![t] = "done"]
                 /\ out' = [out EXCEPT ![t] = [o EXCEPT !.ok = ok_rolling]]
                 /\ frame' = [frame EXCEPT ![t] = [f EXCEPT !.ok_rolling = ok_rolling]]

(***************************************************************************)
(* update.py, _Automation.run: one action per call to the outside.         *)
(***************************************************************************)
\* lines 65-124: the environment, the template, the identifier, the pods of
\* the cluster; with no reply at all there is nothing to update
UpdateQuery(t) ==
    /\ args.tool = "update"
    /\ pc[t] = "run"
    /\ LET raw == TemplateFile(args.containers[t])
           cfg0 == Merge(UpdateDefaults, raw)
       IN IF \/ "MARATHON_MASTER" \notin DOMAIN environ
             \/ DOMAIN raw = {}
             \/ "cluster" \notin DOMAIN cfg0
             \/ "image" \notin DOMAIN cfg0
          THEN Abort(t) /\ UNCHANGED <<out, frame>>
          ELSE \E master \in Range(environ.MARATHON_MASTER), reachable \in outside.zk :
                 LET qualified == Qualified(args.namespace, Cluster(cfg0, args.suffix))
                     found == QueryExisting(qualified)
                     f == [frame[t] EXCEPT !.master = master, !.qualified = qualified]
                 IN IF ~reachable
                    THEN Abort(t) /\ frame' = [frame EXCEPT ![t] = f] /\ UNCHANGED out
                    ELSE /\ frame' = [frame EXCEPT ![t] =
                               [f EXCEPT !.total = found.total, !.js = found.js]]
                         /\ IF found.total = 0
                            THEN /\ out' = [out EXCEPT ![t] =
                                       [ok |-> FALSE, up |-> <<>>, down |-> <<>>]]
                                 /\ pc' = [pc EXCEPT ![t] = "done"]
                            ELSE /\ pc' = [pc EXCEPT ![t] = "env"]
                                 /\ UNCHANGED out
    /\ UNCHANGED <<shared, now, world, body, pods, log>>

\* lines 126-128 and the head of 265 / 280: env is os.environ itself, which
\* gets $OCHOPOD_ZK; then the first step, if there is one
UpdateEnviron(t) ==
    /\ pc[t] = "env"
    /\ IF "ochopod" \notin DOMAIN environ
       THEN Abort(t) /\ UNCHANGED <<environ, out>>
       ELSE /\ environ' = Put(environ, "OCHOPOD_ZK", environ.ochopod.zk)
            /\ IF args.rolling /\ Len(frame[t].js) = 0
               THEN /\ pc' = [pc EXCEPT ![t] = "done"]
                    /\ out' = [out EXCEPT ![t].ok = TRUE]
               ELSE /\ pc' = [pc EXCEPT ![t] = FirstCall(out[t].up)]
                    /\ UNCHANGED out
    /\ UNCHANGED <<args, overrides, outside, now, world, body, pods, frame, log>>

\* an assignment in the place of the extend
Replace(list, more) == more

\* lines 217 and 227: self.out['down'].extend(...), self.out['up'].extend(...)
Extend(list, more) == list \o more

\* the pods of a cluster with these sequence numbers
PodsOf(qualified, seqs) ==
    {p \in registry : p.cluster = qualified /\ p.seq \in Range(seqs)}

\* _kill, lines 215-223: toolset kill <qualified> -t <timeout> -i <seq> -j
\* (a partial success takes a batch of more than one pod)
UpdateKill(t) ==
    /\ pc[t] = "_kill"
    /\ \E reply \in outside.sibling :
         /\ reply = "partial" => Len(Batch(t)) > 1
         /\ LET f == frame[t]
                seq == Batch(t)
                there == SelectSeq(seq, LAMBDA x : PodsOf(f.qualified, <<x>>) # {})
                down == CASE reply = "ok" -> there
                          [] reply = "partial" -> SubSeq(there, 1, Max(0, Len(there) - 1))
                          [] OTHER -> <<>>
                kill_result == reply = "ok"
            IN /\ log' = [log EXCEPT ![t] = Append(@,
                     [op |-> "kill", step |-> f.counter, seq |-> seq, reply |-> reply])]
               /\ registry' = registry \ PodsOf(f.qualified, down)
               /\ IF reply = "garbled"
                  THEN Abort(t) /\ UNCHANGED <<out, frame>>
                  ELSE Advance(t, [out[t] EXCEPT !.down = Extend(@, down)], f,
                               Follow("_kill", kill_result, out[t].up))
    /\ UNCHANGED <<shared, now, nextSeq, apps, body, pods>>

\* _deploy, lines 225-233: toolset deploy <template> -n <namespace>
\* -t <timeout> -p <len(seq)> -j, which makes a new application of the
\* cluster and reports the pods it saw come up
UpdateDeploy(t) ==
    /\ pc[t] = "_deploy"
    /\ \E reply \in outside.sibling :
         /\ reply = "partial" => Len(Batch(t)) > 1
         /\ LET f == frame[t]
                asked == Len(Batch(t))
                n == TargetPods(asked, FALSE, <<>>)
                k == CASE reply = "ok" -> n
                       [] reply = "partial" -> n - 1
                       [] OTHER -> 0
                up == [i \in 1..k |-> nextSeq + i - 1]
                deploy_result == reply = "ok"
            IN /\ log' = [log EXCEPT ![t] = Append(@,
                     [op |-> "deploy", step |-> f.counter, pods |-> asked,
                      reply |-> reply])]
               /\ IF k > 0
                  THEN /\ now' = now + 1
                       /\ apps' = apps \cup
                            {[id |-> Application(f.qualified, now + 1),
                              cluster |-> f.qualified, instances |-> n, booted |-> k]}
                       /\ registry' = registry \cup
                            {[seq |-> up[i], cluster |-> f.qualified,
                              app |-> Application(f.qualified, now + 1),
                              code |-> 200, process |-> "running"] : i \in 1..k}
                       /\ nextSeq' = nextSeq + k
                  ELSE UNCHANGED <<now, apps, registry, nextSeq>>
               /\ IF reply = "garbled"
                  THEN Abort(t) /\ UNCHANGED <<out, frame>>
                  ELSE Advance(t, [out[t] EXCEPT !.up = Extend(@, up)], f,
                               Follow("_deploy", deploy_result, out[t].up \o up))
    /\ UNCHANGED <<shared, body, pods>>

\* _scale_command, line 187: toolset scale <qualified> -g <up[0]>
\* -f @<counter + 1> -t 5 -j, which sets the size of the application that
\* runs pod up[0]
UpdateScale(t) ==
    /\ pc[t] = "_scale"
    /\ \E reply \in outside.sibling \ {"partial"} :
         LET f == frame[t]
             group == out[t].up[1]
             target == f.counter + 1
             scaled == {a \in apps : \E p \in PodsOf(f.qualified, <<group>>) : p.app = a.id}
         IN /\ log' = [log EXCEPT ![t] = Append(@,
                  [op |-> "scale", step |-> f.counter, group |-> group, target |-> target,
                   reply |-> reply])]
            /\ IF reply = "ok"
               THEN apps' = (apps \ scaled) \cup
                            {[a EXCEPT !.instances = target] : a \in scaled}
               ELSE UNCHANGED apps
            /\ IF reply = "garbled"
               THEN Abort(t) /\ UNCHANGED frame
               ELSE /\ pc' = [pc EXCEPT ![t] = "_get_new_pod_seq"]
                    /\ frame' = [frame EXCEPT ![t] =
                          [@ EXCEPT !.scale_result = (reply = "ok")]]
    /\ UNCHANGED <<shared, now, registry, nextSeq, body, out, pods>>

\* _get_new_pod_seq, lines 194-213: one attempt of the poll for the new pod;
\* the last one appends what it got and ends the step part with scale_result
UpdatePoll(t) ==
    /\ pc[t] = "_get_new_pod_seq"
    /\ \E reachable \in outside.zk, over \in BOOLEAN :
         LET f == frame[t]
             seq_new == QueryExisting(f.qualified).js
             seq_diff == Diff(seq_new, f.js \o out[t].up)
             passed == reachable /\ Len(seq_diff) = 1
         IN IF passed
            THEN Advance(t, [out[t] EXCEPT !.up = Append(@, seq_diff[1])], f,
                         Follow("_scale", f.scale_result, out[t].up))
            ELSE IF over
            THEN \E end \in GivesUp(None) :
                   IF end = "raise"
                   THEN Abort(t) /\ UNCHANGED <<out, frame>>
                   ELSE Advance(t, [out[t] EXCEPT !.up = Append(@, NoSeq)], f,
                                Follow("_scale", f.scale_result, out[t].up))
            ELSE UNCHANGED <<pc, out, frame>>
    /\ UNCHANGED <<shared, now, world, body, pods, log>>

\* lines 271-274: time.sleep(self.wait) between two steps
UpdateSleep(t) ==
    /\ pc[t] = "sleep"
    /\ log' = [log EXCEPT ![t] = Append(@, [op |-> "sleep", secs |-> frame[t].wait])]
    /\ frame' = [frame EXCEPT ![t].counter = @ + 1]
    /\ pc' = [pc EXCEPT ![t] = FirstCall(out[t].up)]
    /\ UNCHANGED <<shared, now, world, body, out, pods>>

(***************************************************************************)
(* update.py, _Tool.body.                                                  *)
(***************************************************************************)
\* lines 370-381 and 41-62: the next _Automation is constructed, which starts
\* it, and is stored under its template
UpdateSpawn ==
    /\ args.tool = "update"
    /\ rpc = "spawn"
    /\ LET i == started + 1
       IN /\ started' = i
          /\ threads' = Put(threads, args.containers[i], i)
          /\ pc' = [pc EXCEPT ![i] = "run"]
          /\ out' = [out EXCEPT ![i] = [ok |-> FALSE, up |-> <<>>, down |-> <<>>]]
          /\ frame' = [frame EXCEPT ![i] =
                [@ EXCEPT !.timeout = Max(args.timeout, 5), !.wait = Max(args.wait, 0)]]
          /\ rpc' = IF i = Len(args.containers) THEN "join" ELSE "spawn"
    /\ UNCHANGED <<shared, now, world, outcome, report, pods, log>>

\* lines 386-392
UpdateReport ==
    /\ args.tool = "update"
    /\ rpc = "join"
    /\ DOMAIN outcome = DOMAIN threads
    /\ report' = [pct |-> Pct(outcome, Cardinality(DOMAIN threads)),
                  up |-> SumOver(DOMAIN outcome, [k \in DOMAIN outcome |-> Len(outcome[k].up)]),
                  down |-> SumOver(DOMAIN outcome, [k \in DOMAIN outcome |-> Len(outcome[k].down)]),
                  status |-> Status(Pct(outcome, Cardinality(DOMAIN threads)))]
    /\ rpc' = "done"
    /\ UNCHANGED <<shared, now, world, started, threads, outcome,
                   pc, out, pods, frame, log>>

(***************************************************************************)
(* The update tool.                                                        *)
(***************************************************************************)
\* os.environ of the portal pod: $ochopod holds the pod's hints, as json
UpdateEnvirons ==
    {EmptyDict,
     [MARATHON_MASTER |-> <<"m1">>],
     [MARATHON_MASTER |-> <<"m1">>, ochopod |-> [zk |-> "zk1:2181"]]}

\* update <one template> [--rolling] [--kill_first] [-w wait], against any
\* outside
\* update reads the code of a pod only, never its process hint; -w may be
\* negative
InitUpdate ==
    /\ args \in [tool : {"update"}, containers : Solo,
                 namespace : Namespaces, suffix : Suffixes,
                 timeout : {60}, strict : {FALSE},
                 kill_first : BOOLEAN, rolling : BOOLEAN, wait : {0 - 1, 0, MaxWait}]
    /\ environ \in UpdateEnvirons
    /\ overrides = EmptyDict
    /\ outside = [Anything EXCEPT !.pod = PriorStates]
    /\ InitWorld
    /\ NoBystander
    /\ InitBody

\* update <templates> [--kill_first], against a quiet outside and a cluster
\* of one live pod
InitUpdateMany ==
    /\ args \in [tool : {"update"}, containers : OrderedLists,
                 namespace : Namespaces, suffix : {None},
                 timeout : {60}, strict : {FALSE},
                 kill_first : BOOLEAN, rolling : {FALSE}, wait : {0}]
    /\ environ = [MARATHON_MASTER |-> <<"m1">>, ochopod |-> [zk |-> "zk1:2181"]]
    /\ overrides = EmptyDict
    /\ outside = Quiet
    /\ registry = {[seq |-> FirstSeq, cluster |-> PriorCluster,
                    app |-> Application(PriorCluster, 0),
                    code |-> 200, process |-> "running"]}
    /\ nextSeq = FirstSeq + Cardinality(registry)
    /\ apps = {[id |-> Application(PriorCluster, 0), cluster |-> PriorCluster,
                instances |-> Cardinality(registry), booted |-> Cardinality(registry)]}
    /\ now = 1
    /\ InitBody

(***************************************************************************)
(* The specifications: one tool run of one template against any outside,   *)
(* and one tool run of several templates against a quiet one.              *)
(***************************************************************************)
Init == InitDeploy \/ InitUpdate

InitMany == InitDeployMany \/ InitUpdateMany

Next ==
    \/ BodyAssert
    \/ DeploySpawn
    \/ UpdateSpawn
    \/ BodyJoin
    \/ DeployReport
    \/ UpdateReport
    \/ \E t \in Threads : DeployBuild(t)
    \/ \E t \in Threads : DeployPost(t)
    \/ \E t \in Threads : DeploySpin(t)
    \/ \E t \in Threads : DeployDelete(t)
    \/ \E t \in Threads : DeployKill(t)
    \/ \E t \in Threads : UpdateQuery(t)
    \/ \E t \in Threads : UpdateEnviron(t)
    \/ \E t \in Threads : UpdateKill(t)
    \/ \E t \in Threads : UpdateDeploy(t)
    \/ \E t \in Threads : UpdateScale(t)
    \/ \E t \in Threads : UpdatePoll(t)
    \/ \E t \in Threads : UpdateSleep(t)
    \/ PodBoot

Spec == Init /\ [][Next]_vars

\* without -c deploy kills no pod, and without --rolling no step of update
\* follows the first: no scale, no poll, no sleep
NextMany ==
    \/ BodyAssert
    \/ DeploySpawn
    \/ UpdateSpawn
    \/ BodyJoin
    \/ DeployReport
    \/ UpdateReport
    \/ \E t \in Threads : DeployBuild(t)
    \/ \E t \in Threads : DeployPost(t)
    \/ \E t \in Threads : DeploySpin(t)
    \/ \E t \in Threads : DeployDelete(t)
    \/ \E t \in Threads : UpdateQuery(t)
    \/ \E t \in Threads : UpdateEnviron(t)
    \/ \E t \in Threads : UpdateKill(t)
    \/ \E t \in Threads : UpdateDeploy(t)
    \/ PodBoot

SpecMany == InitMany /\ [][NextMany]_vars

(***************************************************************************)
(* Properties.                                                             *)
(***************************************************************************)
\* the pods of an application that answer 200
LivePods(application) == {p \in registry : p.app = application /\ p.code = 200}

\* the threads the body has constructed
Started == 1..started

\* the poll of a deploy thread is over
Polled(t) ==
    /\ args.tool = "deploy"
    /\ t \in Started
    /\ \/ pc[t] \in {"delete", "kill", "done"}
       \/ pc[t] = "aborted" /\ \E i \in DOMAIN log[t] : log[t][i].op \in {"DELETE", "kill"}

\* the thread is at the DELETE or has sent it
Deleting(t) ==
    \/ pc[t] = "delete"
    \/ \E i \in DOMAIN log[t] : log[t][i].op = "DELETE"

\* C1: once the POST is accepted, a deploy thread sends the DELETE if its
\* poll listed no pod of the new application, and is never about to send it
\* while a pod of that application that its poll listed is alive in the
\* registry, the pods being fewer than asked for when the poll gave up
\* included.
C1_DeleteOnlyWhenNothingRuns ==
    \A t \in Threads :
        /\ (Polled(t) /\ frame[t].seen = <<>>) => Deleting(t)
        /\ (args.tool = "deploy" /\ pc[t] = "delete")
              => \A p \in LivePods(frame[t].application) :
                    \A i \in DOMAIN frame[t].seen : frame[t].seen[i][2] # p.seq

\* C2: a deploy poll that gave up after it listed k pods, 0 < k < the count
\* asked for, leaves the sequence numbers of those k pods in `up`; `up` is
\* empty only if the poll listed no pod.
C2_TimeoutKeepsPartialSet ==
    \A t \in Threads :
        (Polled(t) /\ frame[t].expired) =>
            /\ (0 < Len(frame[t].seen) /\ Len(frame[t].seen) < pods[t])
                  => out[t].up = Up(frame[t].seen)
            /\ out[t].up = <<>> => frame[t].seen = <<>>

\* C3: a thread of deploy or update that ended on an error, whatever the
\* step that raised it, hands out an outcome whose ok is false.
C3_ErrorMeansNotOk ==
    \A t \in Threads : pc[t] = "aborted" => out[t].ok = FALSE

\* C4: the body starts one thread per listed template, a template listed
\* twice included, and makes its report only once every thread it started
\* has finished.
C4_ReportAfterEveryThread ==
    /\ rpc \in {"join", "done"} => started = Len(args.containers)
    /\ rpc = "done" => \A t \in Started : pc[t] \in Finished

\* what a step does to the threads other than t and to the body
LeavesSiblingsAlone(t) ==
    /\ rpc' = rpc
    /\ threads' = threads
    /\ outcome' = outcome
    /\ report' = report
    /\ \A u \in Threads \ {t} :
          /\ pc'[u] = pc[u]
          /\ out'[u] = out[u]
          /\ pods'[u] = pods[u]
          /\ frame'[u] = frame[u]
          /\ log'[u] = log[u]

\* every template listed has its complete entry, the one its thread left
CompleteOutcome ==
    /\ DOMAIN outcome = Range(args.containers)
    /\ \A k \in DOMAIN outcome :
          /\ DOMAIN outcome[k] = {"ok", "up", "down"}
          /\ outcome[k] = out[threads[k]]
          /\ pc[threads[k]] \in Finished

\* C5: the step on which a thread fails aborts no sibling, changes no sibling's
\* outcome and does not abort the body: the body never raises once the threads
\* are built, it can always go on once the threads it waits for have finished,
\* and its outcome map holds one complete {ok, up, down} entry per template,
\* the one the template's own thread produced.
C5_FailureStaysInItsThread ==
    /\ [](rpc # "raised")
    /\ []((rpc = "join" /\ \A k \in DOMAIN threads : pc[threads[k]] \in Finished)
              => ENABLED (BodyJoin \/ DeployReport \/ UpdateReport))
    /\ [](rpc = "done" => CompleteOutcome)
    /\ [][\A t \in Threads :
            (pc[t] \notin Finished /\ pc'[t] = "aborted") => LeavesSiblingsAlone(t)]_vars

\* the report is made, one thread failed and another one succeeded
C5_Witness ==
    /\ rpc = "done"
    /\ \E t \in Started, u \in Started :
          /\ pc[t] = "aborted"
          /\ pc[u] = "done"
          /\ out[u].ok
          /\ \E k \in DOMAIN outcome : threads[k] = u /\ outcome[k].ok

\* C6: a thread writes its own working state and its own outcome only: the
\* process environment and the overrides are the same after every step.
C6_SharedInputsUnchanged ==
    [][environ' = environ /\ overrides' = overrides]_vars

\* the entries of every list `field` of the outcome map, counted one by one
Total(field) ==
    Cardinality(UNION {{<<k, i>> : i \in 1..Len(outcome[k][field])} :
                       k \in DOMAIN outcome})

\* C7: the status is 0 if and only if the outcome of every template is ok,
\* that is if 100 * okCount / templateCount is 100, and 1 otherwise, with no
\* template ok and with no template at all included; the pods reported are
\* the sum of len(up) over the templates, and for update of len(down) too.
C7_StatusAndTotals ==
    /\ Status(Pct(EmptyDict, 0)) = 1
    /\ rpc = "done" =>
          LET n == Cardinality(DOMAIN outcome)
              oks == {k \in DOMAIN outcome : outcome[k].ok}
          IN /\ report.status \in {0, 1}
             /\ report.status = 0 <=> oks = DOMAIN outcome
             /\ report.pct = (100 * Cardinality(oks)) \div n
             /\ report.status = 0 <=> report.pct = 100
             /\ oks = {} => report.status = 1
             /\ report.up = Total("up")
             /\ args.tool = "update" => report.down = Total("down")

\* a report over two templates of which one only is ok, with pods up
C7_Witness ==
    /\ rpc = "done"
    /\ Cardinality(DOMAIN outcome) > 1
    /\ 0 < report.pct
    /\ report.pct < 100
    /\ report.up > 0
    /\ report.status = 1

\* C8: an update thread that finds no live pod (no entry with code 200) of
\* its cluster calls no sibling, rolling or not, and its outcome is ok false,
\* up [] and down [].
C8_NothingLiveNothingDone ==
    \A t \in Threads :
        (args.tool = "update" /\ pc[t] \in {"env", "_kill", "_deploy", "_scale",
                                            "_get_new_pod_seq", "sleep",
                                            "done", "aborted"}
                              /\ frame[t].js = <<>>)
        => /\ log[t] = <<>>
           /\ pc[t] \in Finished
                 => out[t] = [ok |-> FALSE, up |-> <<>>, down |-> <<>>]

\* the sibling calls of an update thread that create the replacement
Creates == {"deploy", "scale"}

\* the thread made a call of this kind in this step that came back like this
Called(t, ops, step, replies) ==
    \E i \in DOMAIN log[t] :
        /\ log[t][i].op \in ops
        /\ log[t][i].step = step
        /\ log[t][i].reply \in replies

\* in the log of t, every call of `later` comes after a call of `first` of
\* the same step that succeeded
Ordered(t, first, later) ==
    \A i \in DOMAIN log[t] :
        log[t][i].op \in later =>
            \E j \in 1..(i - 1) :
                /\ log[t][j].op \in first
                /\ log[t][j].step = log[t][i].step
                /\ log[t][j].reply = "ok"

\* the step of this number is over
StepOver(t, step) ==
    \/ pc[t] \in Finished
    \/ frame[t].counter > step
    \/ pc[t] = "sleep" /\ frame[t].counter = step

Failures == {"fail", "partial", "garbled"}

\* C9: with kill_first, the kill of a step is called before any deploy or
\* scale of that step; after a kill that failed the step calls neither, and
\* the step is false: the run does not end ok.
C9_KillFirst ==
    \A t \in Threads :
        (args.tool = "update" /\ args.kill_first /\ t \in Started) =>
            /\ Ordered(t, {"kill"}, Creates)
            /\ \A step \in 0..frame[t].counter :
                  Called(t, {"kill"}, step, Failures) =>
                      /\ ~Called(t, Creates, step, {"ok"} \cup Failures)
                      /\ pc[t] \notin {"_deploy", "_scale", "_get_new_pod_seq"}
                            \/ frame[t].counter # step
                      /\ StepOver(t, step)
                      /\ pc[t] = "done" => ~out[t].ok

\* with kill_first, a run that is over, in which one kill failed and another
\* step killed and then created
C9_Witness ==
    \E t \in Started :
        /\ args.tool = "update"
        /\ args.kill_first
        /\ pc[t] = "done"
        /\ \E step \in 0..frame[t].counter : Called(t, {"kill"}, step, {"fail"})
        /\ \E step \in 0..frame[t].counter :
              /\ Called(t, {"kill"}, step, {"ok"})
              /\ Called(t, Creates, step, {"ok"})

\* the pods a thread of update found at its start that are gone
Killed(t) ==
    {i \in DOMAIN frame[t].js : PodsOf(frame[t].qualified, <<frame[t].js[i]>>) = {}}

\* C10: without kill_first, the deploy or scale of a step is called before
\* the kill of that step; after a creation that failed the step calls no
\* kill, and the step is false: the run does not end ok. A pod found at the
\* start is gone only after the creation of its step was reported done.
C10_CreateFirst ==
    \A t \in Threads :
        (args.tool = "update" /\ ~args.kill_first /\ t \in Started) =>
            /\ Ordered(t, Creates, {"kill"})
            /\ \A step \in 0..frame[t].counter :
                  Called(t, Creates, step, Failures) =>
                      /\ ~Called(t, {"kill"}, step, {"ok"} \cup Failures)
                      /\ pc[t] # "_kill" \/ frame[t].counter # step
                      /\ pc[t] = "done" => ~out[t].ok
            /\ \A i \in Killed(t) :
                  Called(t, Creates, IF args.rolling THEN i - 1 ELSE 0, {"ok"})

\* without kill_first, a run that is over, in which one creation failed and
\* another step created and then killed its pod
C10_Witness ==
    \E t \in Started :
        /\ args.tool = "update"
        /\ ~args.kill_first
        /\ pc[t] = "done"
        /\ \E step \in 0..frame[t].counter : Called(t, Creates, step, {"fail"})
        /\ Killed(t) # {}

\* the sibling calls of an update thread
Calls == {"kill", "deploy", "scale"}

\* the numbers of the steps in which the thread called a sibling
StepsOf(t) == {log[t][i].step : i \in {j \in DOMAIN log[t] : log[t][j].op \in Calls}}

\* the thread is an update thread that has queried its cluster
Updating(t) == args.tool = "update" /\ t \in Started /\ pc[t] # "run"

\* the pod or pods the step of this number is to replace
Target(t, step) == IF args.rolling THEN <<frame[t].js[step + 1]>> ELSE frame[t].js

CallsOf(t) == SelectSeq(log[t], LAMBDA e : e.op \in Calls)

\* a rolling update of two pods or more, the replacement first, that is over
\* and all of whose sibling calls succeeded
AllSucceeded(t) ==
    /\ Updating(t)
    /\ args.rolling
    /\ ~args.kill_first
    /\ pc[t] = "done"
    /\ Len(frame[t].js) >= 2
    /\ \A i \in DOMAIN CallsOf(t) : CallsOf(t)[i].reply = "ok"

\* the run made two calls per pod, a creation and then the kill of that pod
\* alone, and ended ok with the pods it found down, in their order, and as
\* many entries up
KilledOneByOne(t) ==
    LET calls == CallsOf(t)
        js == frame[t].js
    IN /\ Len(calls) = 2 * Len(js)
       /\ \A i \in DOMAIN js :
             /\ calls[2 * i - 1].op \in Creates
             /\ calls[2 * i - 1].step = i - 1
             /\ calls[2 * i].op = "kill"
             /\ calls[2 * i].step = i - 1
             /\ calls[2 * i].seq = <<js[i]>>
       /\ out[t].ok
       /\ out[t].down = js
       /\ Len(out[t].up) = Len(js)
       /\ \A i \in DOMAIN out[t].up :
             /\ out[t].up[i] \notin Range(js)
             /\ \A j \in DOMAIN out[t].up :
                   (j # i /\ out[t].up[i] # NoSeq) => out[t].up[j] # out[t].up[i]

StepOk(t, step) ==
    /\ Called(t, {"kill"}, step, {"ok"})
    /\ Called(t, Creates, step, {"ok"})

\* the steps an update that found something to update is to make
StepsDue(t) == 0..((IF args.rolling THEN Len(frame[t].js) ELSE 1) - 1)

\* C13: the ok of an update run that ended is the conjunction of the results
\* of its steps, the one step if it is not rolling and all the N steps if it
\* is: ok is true if and only if every step returned True. A run an error
\* ended is not ok.
C13_OkIsEveryStepOk ==
    \A t \in Threads :
        Updating(t) =>
            /\ (pc[t] = "done" /\ frame[t].total > 0)
                  => (out[t].ok <=> \A step \in StepsDue(t) : StepOk(t, step))
            /\ pc[t] = "aborted" => ~out[t].ok

\* a rolling update that is over, whose first step failed and whose last
\* step succeeded
C13_Witness ==
    \E t \in Started :
        /\ Updating(t)
        /\ args.rolling
        /\ pc[t] = "done"
        /\ Len(frame[t].js) >= 2
        /\ ~StepOk(t, 0)
        /\ StepOk(t, Len(frame[t].js) - 1)
        /\ ~out[t].ok

\* C14: an update does not change the size of the cluster: when a run over
\* N live pods ends with ok = true, N pods were added and the N pods found at
\* the start were removed, so len(up) = len(down) = N and down holds the
\* sequence numbers found at the start.
C14_SizeUnchanged ==
    \A t \in Threads :
        (Updating(t) /\ pc[t] = "done" /\ out[t].ok) =>
            /\ Len(out[t].up) = Len(frame[t].js)
            /\ Len(out[t].down) = Len(frame[t].js)
            /\ Range(out[t].down) = Range(frame[t].js)

\* the live pods of a cluster: its registered pods that answer with code 200
LiveOf(qualified) == {p \in registry : p.cluster = qualified /\ p.code = 200}

\* C15: a rolling update keeps the size of the cluster throughout: at every
\* point of a rolling update over N live pods, in either ordering and whether
\* or not a step failed, the number of live pods of the cluster differs from
\* N by at most one.
C15_RollingKeepsSize ==
    \A t \in Threads :
        (Updating(t) /\ args.rolling /\ frame[t].total > 0) =>
            LET n == Len(frame[t].js)
                live == Cardinality(LiveOf(frame[t].qualified))
            IN live \in (n - 1)..(n + 1)

\* the identifiers of the applications marathon holds
Ids(set) == {a.id : a \in set}

\* the applications submitted since the start (the one found there has stamp 0)
Submitted == {a \in apps : a.id # Application(a.cluster, 0)}

Kills(t) == {i \in DOMAIN log[t] : log[t][i].op = "kill"}

\* C17: a deploy run calls the kill tool only with --cycle, after marathon
\* accepted the submission and the poll listed at least one pod of the new
\* application; the call names the cluster and exactly the sequence numbers
\* of the snapshot taken before the submission, and once it succeeded down is
\* that list. Without --cycle, or with no new pod listed, or when the call
\* failed, down stays empty.
C17_CycleKillsSnapshotAfterUp ==
    \A t \in Started :
        args.tool = "deploy" =>
            /\ \A i \in Kills(t) :
                 /\ args.cycle
                 /\ out[t].up # <<>>
                 /\ \E j \in 1..(i - 1) :
                      log[t][j].op = "POST" /\ log[t][j].code \in {200, 201}
                 /\ log[t][i].cluster = frame[t].qualified
                 /\ log[t][i].seq = frame[t].prev
            /\ out[t].down = IF \E i \in Kills(t) : log[t][i].code = 0
                             THEN frame[t].prev ELSE <<>>
            /\ (pc[t] = "done" /\ args.cycle /\ out[t].up # <<>>) => Kills(t) # {}

\* a deploy run with --cycle that is over, found pods before it submitted,
\* saw a new pod and killed the pods it had found
C17_Witness ==
    \E t \in Started :
        /\ args.tool = "deploy"
        /\ args.cycle
        /\ pc[t] = "done"
        /\ frame[t].prev # <<>>
        /\ out[t].up # <<>>
        /\ Kills(t) # {}
        /\ out[t].down = frame[t].prev

\* the pods of the listing of the poll that are not dead
Alive(js) == {i \in DOMAIN js : js[i][1] # "dead"}

\* C18: when the poll of a deploy run ended within its time, up is the list
\* of the sequence numbers it listed for the new application, and ok is true
\* if and only if the number of listed pods whose process is not 'dead' is
\* the target number: a dead pod does not count as running.
C18_OkCountsAlivePods ==
    \A t \in Threads :
        (Polled(t) /\ ~frame[t].expired) =>
            /\ out[t].up = Up(frame[t].seen)
            /\ out[t].ok <=> Cardinality(Alive(frame[t].seen)) = pods[t]

\* the application identifiers a thread has sent to marathon in a POST
Posted(t) == {log[t][i].id : i \in {j \in DOMAIN log[t] : log[t][j].op = "POST"}}

\* C19: two deploy submissions for the same qualified cluster, of a later
\* generation or of two threads of one run, carry different application
\* identifiers: a submission never reuses the identifier of an application
\* marathon holds or of another thread's submission.
C19_DistinctApplications ==
    \A t \in Started : \A u \in Started :
        (args.tool = "deploy" /\ t # u
           /\ frame[t].qualified = frame[u].qualified) =>
            Posted(t) \cap Posted(u) = {}

\* the thread has computed its target number of pods
Counted(t) ==
    /\ args.tool = "deploy"
    /\ t \in Started
    /\ (pc[t] = "post" \/ Posted(t) # {})

\* C20: the target number of pods of a deploy run is the value of -p when
\* one is given, else with --cycle the number of pods that answered with
\* code 200 in the snapshot taken before the submission, else 1, for every
\* value of -p, of --cycle and every size of the snapshot.
C20_TargetPodCount ==
    \A t \in Threads :
        Counted(t) =>
            pods[t] = IF args.pods # NotGiven THEN args.pods
                      ELSE IF args.cycle THEN Len(frame[t].prev)
                      ELSE 1

\* the document the thread sends, or has sent, to marathon
Document(t) == frame[t].spec

\* the identifier the command line and the template give the cluster
Named(t) ==
    LET name == TemplateFile(args.containers[t]).cluster
    IN IF args.suffix = None THEN args.namespace \o "." \o name
       ELSE args.namespace \o "." \o name \o "-" \o args.suffix

\* C21: for every template with a cluster and an image, every namespace,
\* suffix and target number of pods, the document a deploy run submits has
\* the target number as its instances and carries the qualified identifier
\* <namespace>.<cluster>, or <namespace>.<cluster>-<suffix> with -s, whatever
\* the verbatim block of the template holds.
C21_DocumentCountAndIdentifier ==
    \A t \in Threads :
        Counted(t) =>
            /\ Document(t).instances = pods[t]
            /\ Document(t).env.ochopod_application = Named(t)
            /\ Document(t).id = <<"ochopod", Named(t), Document(t).id[3]>>
            /\ \A i \in DOMAIN log[t] :
                 log[t][i].op = "POST" => log[t][i].id = Document(t).id

\* a run with -s and -p 2 of a template whose verbatim block names its own
\* instances has sent its document
C21_Witness ==
    \E t \in Started :
        /\ Posted(t) # {}
        /\ args.suffix # None
        /\ args.pods = 2
        /\ "instances" \in DOMAIN TemplateFile(args.containers[t]).verbatim
        /\ Document(t).instances = 2

\* the verbatim block of the template of a thread
Verbatim(t) == frame[t].cfg.verbatim

\* C22: a verbatim block that is not empty goes on top of the generated
\* document: every field that is in the verbatim block and in the generated
\* document has, in the document sent to marathon, the value of the verbatim
\* block.
C22_VerbatimWins ==
    \A t \in Threads :
        (Counted(t) /\ Verbatim(t) # EmptyDict) =>
            \A k \in DOMAIN Verbatim(t) \cap {"id", "instances", "env", "container"} :
                Document(t)[k] = Verbatim(t)[k]

\* the outcome an _Automation is built with
Untouched == [ok |-> FALSE, up |-> <<>>, down |-> <<>>]

\* marathon took the submission of the thread
Accepted(t) ==
    \E i \in DOMAIN log[t] : log[t][i].op = "POST" /\ log[t][i].code \in {200, 201}

\* a string token of the port list that does not end in ' *'
Malformed(token) ==
    /\ token.type = "str"
    /\ \/ Len(token.val) < 2
       \/ token.val[Len(token.val) - 1] # " "
       \/ token.val[Len(token.val)] # "*"

\* what the thread is given cannot be made into a document: no master list,
\* no cluster or image, a null setting once the overrides are in, or a
\* malformed port
Invalid(t) ==
    LET raw == TemplateFile(args.containers[t])
        named == "cluster" \in DOMAIN raw /\ "image" \in DOMAIN raw
    IN \/ "MARATHON_MASTER" \notin DOMAIN environ
       \/ ~named
       \/ /\ "settings" \in DOMAIN raw
          /\ \E k \in DOMAIN raw.settings :
               /\ raw.settings[k] = Null
               /\ \/ Named(t) \notin DOMAIN overrides
                  \/ k \notin DOMAIN overrides[Named(t)]
                  \/ overrides[Named(t)][k] = Null
       \/ /\ "ports" \in DOMAIN raw
          /\ \E i \in DOMAIN raw.ports : Malformed(raw.ports[i])

\* C23: a deploy run that fails before the submission or at it (no master
\* list, no cluster or image, a null setting once the overrides are merged, a
\* malformed port, or a POST answered other than 200 / 201) ends aborted with
\* ok false and up and down empty, having made no poll for new pods, no
\* DELETE and no kill; and a run whose input is invalid sends no POST at all.
C23_EarlyFailureDoesNothing ==
    \A t \in Started :
        args.tool = "deploy" =>
            /\ (pc[t] = "aborted" /\ ~Accepted(t)) =>
                  /\ out[t] = Untouched
                  /\ frame[t].seen = <<>>
                  /\ ~frame[t].expired
                  /\ \A i \in DOMAIN log[t] : log[t][i].op = "POST"
            /\ (Invalid(t) /\ pc[t] # "run") => (pc[t] = "aborted" /\ log[t] = <<>>)
            /\ (\E i \in DOMAIN log[t] :
                   log[t][i].op = "POST" /\ log[t][i].code \notin {200, 201})
                  => (pc[t] = "aborted" /\ Len(log[t]) = 1)

\* a run of a valid input that ended when marathon refused its POST
C23_Witness ==
    \E t \in Started :
        /\ args.tool = "deploy"
        /\ pc[t] = "aborted"
        /\ ~Invalid(t)
        /\ \E i \in DOMAIN log[t] : log[t][i].op = "POST" /\ log[t][i].code = 409
        /\ out[t] = Untouched

\* the number of pods the update had added when it made the i-th call of its log
AddedBefore(t, i) ==
    SumOver({j \in 1..(i - 1) : log[t][j].op \in Creates},
            [j \in 1..(i - 1) |->
                IF log[t][j].op = "scale" THEN 1
                ELSE CASE log[t][j].reply = "ok" -> TargetPods(log[t][j].pods, FALSE, <<>>)
                       [] log[t][j].reply = "partial" ->
                            TargetPods(log[t][j].pods, FALSE, <<>>) - 1
                       [] OTHER -> 0])

\* C24: a step creates its replacement with the sibling deploy, for
\* len(batch) pods, if and only if the run has added no pod yet (up is empty),
\* and with the sibling scale otherwise; and every scale call asks for one
\* pod more than the run has added so far, whatever the earlier steps
\* returned.
C24_DeployFirstThenScaleByOne ==
    \A t \in Started :
        Updating(t) =>
            \A i \in DOMAIN log[t] :
                /\ log[t][i].op = "deploy" =>
                      /\ AddedBefore(t, i) = 0
                      /\ log[t][i].pods = Len(Target(t, log[t][i].step))
                /\ log[t][i].op = "scale" =>
                      /\ AddedBefore(t, i) > 0
                      /\ log[t][i].target = AddedBefore(t, i) + 1

\* the live pods the poll of a scale step would list now that were neither
\* there at the start nor added by the run
Fresh(t) == Diff(QueryExisting(frame[t].qualified).js, frame[t].js \o out[t].up)

\* the poll of the scale step of t ends in this step of the run
PollEnds(t) == pc[t] = "_get_new_pod_seq" /\ pc'[t] # "_get_new_pod_seq"

\* C25: in a step that scales, a sequence number is appended to up only when
\* the live sequence numbers listed after the scale, less those there at the
\* start and those already in up, are exactly one, and that one is appended;
\* when the poll ends without such a listing the step fails: nothing is
\* appended, its result is false, and the run goes on with its next steps.
C25_ScaleAppendsTheOneFreshPod ==
    [][\A t \in Started :
          PollEnds(t) =>
              \/ /\ Len(Fresh(t)) = 1
                 /\ out'[t].up = Append(out[t].up, Fresh(t)[1])
              \/ /\ out'[t].up = out[t].up
                 /\ pc'[t] \notin {"aborted", "_kill"}
                 /\ ~frame'[t].ok_rolling
                 /\ pc'[t] = "done" => ~out'[t].ok]_vars

\* the entries of the log of a thread that are sleeps
Sleeps(t) == {i \in DOMAIN log[t] : log[t][i].op = "sleep"}

\* C27: a rolling update with wait > 0 over N pods sleeps `wait` seconds after
\* every step but the last, a step that failed included: each sleep stands
\* between the calls of a step and those of the next, two steps that follow
\* each other have a sleep between them, a run that ended has slept N - 1
\* times and never after its last step. With a wait of 0, or a negative one,
\* and without --rolling there is no sleep.
C27_SleepBetweenSteps ==
    \A t \in Started :
        Updating(t) =>
            LET n == Len(frame[t].js)
                waits == args.rolling /\ args.wait > 0
            IN /\ ~waits => Sleeps(t) = {}
               /\ \A i \in Sleeps(t) :
                    /\ log[t][i].secs = args.wait
                    /\ i > 1 /\ log[t][i - 1].op \in Calls
                    /\ log[t][i - 1].step < n - 1
                    /\ i < Len(log[t]) =>
                          /\ log[t][i + 1].op \in Calls
                          /\ log[t][i + 1].step = log[t][i - 1].step + 1
               /\ waits =>
                    \A i \in 2..Len(log[t]) :
                        (log[t][i].op \in Calls /\ log[t][i - 1].op \in Calls)
                            => log[t][i].step = log[t][i - 1].step
               /\ (waits /\ pc[t] = "done" /\ frame[t].total > 0)
                    => Cardinality(Sleeps(t)) = Max(n - 1, 0)

\* a rolling update of three pods that is over, slept twice, and whose first
\* step had failed
C27_Witness ==
    \E t \in Started :
        /\ Updating(t)
        /\ args.rolling
        /\ args.wait > 0
        /\ pc[t] = "done"
        /\ Len(frame[t].js) = 3
        /\ Cardinality(Sleeps(t)) = 2
        /\ ~StepOk(t, 0)

\* C28: what a failing update has recorded survives: up and down only ever
\* grow during a run (a step of the run leaves what they hold in place, at
\* the front), so that the outcome join() returns after a failure or an abort
\* holds every sequence number recorded by the calls made before it, with ok
\* false.
C28_PartialResultsSurvive ==
    [][\A t \in Started :
          args.tool = "update" =>
              /\ Len(out'[t].up) >= Len(out[t].up)
              /\ SubSeq(out'[t].up, 1, Len(out[t].up)) = out[t].up
              /\ Len(out'[t].down) >= Len(out[t].down)
              /\ SubSeq(out'[t].down, 1, Len(out[t].down)) = out[t].down
              /\ pc'[t] = "aborted" => ~out'[t].ok
              /\ (rpc' = "done" /\ pc'[t] \in Finished) =>
                    outcome'[args.containers[t]] = out'[t]]_vars

\* a rolling update that an error ended in a later step, whose outcome as
\* join() returned it holds the pod the first step added and the pod it killed
C28_Witness ==
    \E t \in Started :
        /\ args.tool = "update"
        /\ pc[t] = "aborted"
        /\ rpc = "done"
        /\ StepsOf(t) = {0, 1}
        /\ Len(out[t].up) = 1
        /\ Len(out[t].down) = 1
        /\ ~out[t].ok
        /\ outcome[args.containers[t]] = out[t]

\* C29: a deploy run never hands out ok = true for an application it deleted
\* or that has no pod: whatever -p, --cycle and the pods found before the
\* submission (a cluster with no live pod under --cycle included), ok = true
\* implies that up is not empty and that the run sent no DELETE.
C29_OkHasPodsAndNoDelete ==
    \A t \in Started :
        (args.tool = "deploy" /\ out[t].ok) =>
            /\ out[t].up # <<>>
            /\ \A i \in DOMAIN log[t] : log[t][i].op # "DELETE"

\* the sequence numbers of up: what the polls and the deploys recorded, less
\* the None a poll that gave up may have left
Added(t) == SelectSeq(out[t].up, LAMBDA x : x # NoSeq)

\* no element twice
Injective(seq) == \A i \in DOMAIN seq : \A j \in DOMAIN seq : seq[i] = seq[j] => i = j

LiveAndMine(t, seq) ==
    \E p \in Replies(frame[t].qualified) :
        /\ p.seq = seq
        /\ p.app = frame[t].application
        /\ p.code = 200

\* C31: every sequence number a deploy run reports in up, and every pod it
\* counts towards its target, is that of a registry entry with code 200 whose
\* application hint is the new application: an entry of the new application
\* with another code is neither counted nor reported.
C31_OnlyLivePodsOfTheApplication ==
    \A t \in Started :
        args.tool = "deploy" =>
            /\ \A i \in DOMAIN out[t].up : LiveAndMine(t, out[t].up[i])
            /\ (Polled(t) /\ ~frame[t].expired) =>
                  \A i \in DOMAIN frame[t].seen : LiveAndMine(t, frame[t].seen[i][2])

====
